---- MODULE Spec2Model ----
(***************************************************************************)
(* BlackBox<T> (src/lib.rs): a one-field wrapper around                    *)
(* Option<NonNull<T>> whose pointee is a leaked Box<T>.  The model keeps   *)
(* an explicit heap so that allocation, release, aliasing and the content  *)
(* read through the raw pointer are all state.  T is String (a header that *)
(* points at a heap buffer), as in tests::heap_allocated_string_box.       *)
(***************************************************************************)
EXTENDS Integers, Sequences, FiniteSets, TLC

\* ------------------------------------------------------------------ bounds
MaxInst == 2

Inst == 1..MaxInst

\* One box and one string buffer per instance, plus the buffer of temp_value.
Addr == 1..(2 * MaxInst + 1)

\* The contents handed to BlackBox::new: the empty string (no buffer) and a
\* string with a plain character and a quote in it.
Strings == {<<>>, <<"a", "\"">>}

\* ------------------------------------------------------------- the handle
\* Option<NonNull<T>>: None is the null pointer, Some(p) is the address p.
None == 0

\* A String of capacity 0 owns no heap buffer.
NoBuf == 0

VARIABLES
    heap,                     \* Addr -> cell: the allocator's view of memory
    string_box,               \* Inst -> the BlackBox<String> instances
    large_data_string_value,  \* Inst -> the caller's binding moved into new()
    orig,                     \* Inst -> the content that was passed to new()
    temp_value,               \* the String produced by string_box.clone()
    last,                     \* what the last operation returned / printed
    panicked,                 \* the thread has panicked (unwrap on None)
    releases                  \* number of box allocations given back

vars == <<heap, string_box, large_data_string_value, orig, temp_value, last,
          panicked, releases>>

\* ------------------------------------------------------------------- heap
FreeCell == [kind |-> "free", bytes |-> <<>>, hdr |-> NoBuf]

BufCell(v) == [kind |-> "buf", bytes |-> v, hdr |-> NoBuf]

\* A Box<String>: the String header (its buffer pointer) lives in the cell.
BoxCell(s) == [kind |-> "box", bytes |-> <<>>, hdr |-> s]

\* The allocator hands out the lowest free address.
Alloc(h) ==
    CHOOSE a \in Addr : h[a].kind = "free"
                        /\ \A b \in Addr : h[b].kind = "free" => a <= b

Free(h, a) == IF a = NoBuf THEN h ELSE [h EXCEPT ![a] = FreeCell]

\* "...".to_owned(): a fresh buffer holding v; no allocation for "".
to_owned(h, v) ==
    IF Len(v) = 0
    THEN [heap |-> h, ptr |-> NoBuf]
    ELSE LET a == Alloc(h)
         IN  [heap |-> [h EXCEPT ![a] = BufCell(v)], ptr |-> a]

\* The content of the String whose header is s.
StrOf(h, s) == IF s = NoBuf THEN <<>> ELSE h[s].bytes

LiveBoxes(h) == {a \in Addr : h[a].kind = "box"}

\* -------------------------------------------------------- BlackBox::new
\* Without Box::leak the box is freed when new() returns.
new_NoLeak(h, large_data_set) ==
    [heap |-> h, large_data_on_the_heap |-> Alloc(h)]

\* Without Box::new the pointer is the address of the by-value parameter.
new_NoBox(h, large_data_set) ==
    [heap |-> h, large_data_on_the_heap |-> 1]

\* Box::new moves the String header into a fresh allocation (the buffer is
\* not copied); Box::leak + NonNull::from turn it into the raw pointer.
new(h, large_data_set) ==
    LET non_null == Alloc(h)
    IN  [heap |-> [h EXCEPT ![non_null] = BoxCell(large_data_set)],
         large_data_on_the_heap |-> non_null]

\* --------------------------------------------------------- Deref::deref
\* unwrap_unchecked / as_ptr on a null pointer: a reference is returned.
deref_Unchecked(h, large_data_on_the_heap) ==
    [panic |-> FALSE, heap |-> h, ref |-> large_data_on_the_heap]

\* A read that takes the value out and puts it back in a new box.
deref_Moves(h, large_data_on_the_heap) ==
    IF large_data_on_the_heap = None
    THEN [panic |-> TRUE, heap |-> h, ref |-> None]
    ELSE LET g == Free(h, large_data_on_the_heap)
             a == Alloc(h)
         IN  [panic |-> FALSE,
              heap |-> [g EXCEPT ![a] = h[large_data_on_the_heap]],
              ref |-> a]

\* self.large_data_on_the_heap.as_ref().unwrap() panics on None; otherwise
\* &*raw_pointer is a reference to the pointee, the heap is not touched.
deref(h, large_data_on_the_heap) ==
    IF large_data_on_the_heap = None
    THEN [panic |-> TRUE, heap |-> h, ref |-> None]
    ELSE [panic |-> FALSE, heap |-> h, ref |-> large_data_on_the_heap]

\* What a reference to a Box<String> cell reads.
Pointee(h, ref) == StrOf(h, h[ref].hdr)

\* ------------------------------------------------------- fmt::Debug::fmt
RECURSIVE escape_debug(_)
\* <String as Debug>: a quote and a backslash are escaped.
escape_debug(v) ==
    IF Len(v) = 0 THEN <<>>
    ELSE (IF Head(v) \in {"\"", "\\"} THEN <<"\\", Head(v)>> ELSE <<Head(v)>>)
         \o escape_debug(Tail(v))

DebugString(v) == <<"\"">> \o escape_debug(v) \o <<"\"">>

\* <Option<&T> as Debug>, compact ({:?}) and pretty ({:#?}) at depth 1.
DebugOption(some, inner, alt) ==
    IF ~some THEN <<"None">>
    ELSE IF alt THEN <<"Some(", "\n", "        ">> \o inner
                     \o <<",", "\n", "    ", ")">>
    ELSE <<"Some(">> \o inner \o <<")">>

\* Formatter::debug_struct(name).field(label, value).finish()
DebugStruct(name, label, value, alt) ==
    IF alt THEN <<name, " {", "\n", "    ", label, ": ">> \o value
                \o <<",", "\n", "}">>
    ELSE <<name, " { ", label, ": ">> \o value \o <<" }">>

\* Formatting the NonNull itself prints the address, not the pointee.
fmt_Pointer(h, large_data_on_the_heap, alt) ==
    DebugStruct("BlackBox", "large_data_on_the_heap",
                DebugOption(large_data_on_the_heap # None, <<"0x">>, alt), alt)

\* data_option_ref is Some(&*raw_ptr) or None; no unwrap, no deref() call.
fmt(h, large_data_on_the_heap, alt) ==
    LET some == large_data_on_the_heap # None
        data_option_ref ==
            IF some THEN DebugString(Pointee(h, large_data_on_the_heap))
            ELSE <<>>
    IN  DebugStruct("BlackBox", "large_data_on_the_heap",
                    DebugOption(some, data_option_ref, alt), alt)

\* ------------------------------------------------------ string_box.clone()
\* A copy of the String header only: both Strings own the same buffer.
clone_Shallow(h, large_data_on_the_heap) ==
    LET d == deref(h, large_data_on_the_heap)
    IN  IF d.panic
        THEN [panic |-> TRUE, heap |-> h, ptr |-> NoBuf,
              derefs |-> 1, allocd |-> 0, copied |-> 0]
        ELSE [panic |-> FALSE, heap |-> d.heap, ptr |-> d.heap[d.ref].hdr,
              derefs |-> 1, allocd |-> 0, copied |-> 0]

\* BlackBox has no Clone impl: method lookup goes through Deref to
\* <String as Clone>::clone, which allocates a buffer and copies the bytes.
clone(h, large_data_on_the_heap) ==
    LET d == deref(h, large_data_on_the_heap)
    IN  IF d.panic
        THEN [panic |-> TRUE, heap |-> h, ptr |-> NoBuf,
              derefs |-> 1, allocd |-> 0, copied |-> 0]
        ELSE LET v == Pointee(d.heap, d.ref)
                 c == to_owned(d.heap, v)
             IN  [panic |-> FALSE, heap |-> c.heap, ptr |-> c.ptr,
                  derefs |-> 1,
                  allocd |-> IF c.ptr = NoBuf THEN 0 ELSE 1,
                  copied |-> Len(v)]

\* ------------------------------------------------------------------ drop
\* BlackBox has no Drop impl and Option<NonNull<T>> has no drop glue:
\* the end of an instance's lifetime gives nothing back to the allocator.
drop(h, large_data_on_the_heap) == [heap |-> h, released |-> 0]

\* ----------------------------------------------------------- size_of
Types == {"String", "Person", "str", "dyn Debug"}

Widths == {4, 8}

Sized(T) == T \in {"String", "Person"}

\* A NonNull<T> is one word, or two (address + metadata) when T is unsized;
\* Option adds nothing (the null value is the niche).
size_of_BlackBox(T, w) == IF Sized(T) THEN w ELSE 2 * w

\* ------------------------------------------------------------ the state
Unborn == [state |-> "Unborn", large_data_on_the_heap |-> None]

\* What `last` holds when the operation returns and prints nothing.
Quiet(op, i) ==
    [op |-> op, inst |-> i, alt |-> FALSE, ref |-> None, val |-> <<>>,
     out |-> <<>>, derefs |-> 0, allocd |-> 0, copied |-> 0,
     ty |-> "", width |-> 0, size |-> 0]

NoTemp == [live |-> FALSE, ptr |-> NoBuf]

Init ==
    /\ heap = [a \in Addr |-> FreeCell]
    /\ string_box = [i \in Inst |-> Unborn]
    /\ large_data_string_value = [i \in Inst |-> "unset"]
    /\ orig = [i \in Inst |-> <<>>]
    /\ temp_value = NoTemp
    /\ last = Quiet("none", 0)
    /\ panicked = FALSE
    /\ releases = 0

\* The same, with any of the instances written as the struct literal
\* BlackBox { large_data_on_the_heap: None }, which the type allows.
InitAny ==
    /\ heap = [a \in Addr |-> FreeCell]
    /\ string_box \in [Inst -> {Unborn, [state |-> "Constructed",
                                         large_data_on_the_heap |-> None]}]
    /\ large_data_string_value = [i \in Inst |-> "unset"]
    /\ orig = [i \in Inst |-> <<>>]
    /\ temp_value = NoTemp
    /\ last = Quiet("none", 0)
    /\ panicked = FALSE
    /\ releases = 0

\* A borrow `&self` needs an instance that exists and has not been dropped.
AliveOrDropped(i) == string_box[i].state # "Unborn"

Alive(i) == string_box[i].state = "Constructed"

\* let large_data_string_value = "...".to_owned();
\* string_box = BlackBox::new(large_data_string_value);
New(i, v) ==
    /\ ~panicked
    /\ string_box[i].state = "Unborn"
    /\ LET s == to_owned(heap, v)
           b == new(s.heap, s.ptr)
       IN  /\ heap' = b.heap
           /\ string_box' = [string_box EXCEPT ![i] =
                  [state |-> "Constructed",
                   large_data_on_the_heap |-> b.large_data_on_the_heap]]
    /\ large_data_string_value' =
           [large_data_string_value EXCEPT ![i] = "moved"]
    /\ orig' = [orig EXCEPT ![i] = v]
    /\ UNCHANGED <<temp_value, last, panicked, releases>>

\* The block that declared large_data_string_value ends: the binding was
\* moved from, so nothing is dropped.
ScopeEnd(i) ==
    /\ ~panicked
    /\ large_data_string_value[i] = "moved"
    /\ large_data_string_value' =
           [large_data_string_value EXCEPT ![i] = "ended"]
    /\ UNCHANGED <<heap, string_box, orig, temp_value, last, panicked,
                   releases>>

\* &*string_box
Deref(i) ==
    /\ ~panicked
    /\ Alive(i)
    /\ LET d == deref(heap, string_box[i].large_data_on_the_heap)
       IN  /\ heap' = d.heap
           /\ panicked' = d.panic
           /\ last' = [Quiet("deref", i) EXCEPT
                  !.ref = d.ref,
                  !.val = IF d.ref = None THEN <<>>
                          ELSE Pointee(d.heap, d.ref),
                  !.derefs = 1]
    /\ UNCHANGED <<string_box, large_data_string_value, orig, temp_value,
                   releases>>

\* println!("{:?}", &string_box) and println!("{:#?}", &string_box)
Fmt(i, alt) ==
    /\ ~panicked
    /\ Alive(i)
    /\ last' = [Quiet("fmt", i) EXCEPT
           !.alt = alt,
           !.out = fmt(heap, string_box[i].large_data_on_the_heap, alt)]
    /\ UNCHANGED <<heap, string_box, large_data_string_value, orig,
                   temp_value, panicked, releases>>

\* let temp_value: String = string_box.clone();
Clone(i) ==
    /\ ~panicked
    /\ Alive(i)
    /\ ~temp_value.live
    /\ LET c == clone(heap, string_box[i].large_data_on_the_heap)
       IN  /\ heap' = c.heap
           /\ panicked' = c.panic
           /\ temp_value' = IF c.panic THEN temp_value
                            ELSE [live |-> TRUE, ptr |-> c.ptr]
           /\ last' = [Quiet("clone", i) EXCEPT
                  !.val = StrOf(c.heap, c.ptr),
                  !.derefs = c.derefs,
                  !.allocd = c.allocd,
                  !.copied = c.copied]
    /\ UNCHANGED <<string_box, large_data_string_value, orig, releases>>

\* temp_value goes out of scope: <String as Drop> frees its buffer.
DropTemp ==
    /\ ~panicked
    /\ temp_value.live
    /\ heap' = Free(heap, temp_value.ptr)
    /\ temp_value' = NoTemp
    /\ UNCHANGED <<string_box, large_data_string_value, orig, last,
                   panicked, releases>>

\* string_box goes out of scope.
Destroy(i) ==
    /\ ~panicked
    /\ Alive(i)
    /\ LET d == drop(heap, string_box[i].large_data_on_the_heap)
       IN  /\ heap' = d.heap
           /\ releases' = releases + d.released
    /\ string_box' = [string_box EXCEPT ![i].state = "Destroyed"]
    /\ last' = Quiet("drop", i)
    /\ UNCHANGED <<large_data_string_value, orig, temp_value, panicked>>

\* mem::size_of::<BlackBox<T>>() on a target whose pointers are w bytes.
SizeOf(T, w) ==
    /\ ~panicked
    /\ last' = [Quiet("size_of", 0) EXCEPT
           !.ty = T, !.width = w, !.size = size_of_BlackBox(T, w)]
    /\ UNCHANGED <<heap, string_box, large_data_string_value, orig,
                   temp_value, panicked, releases>>

Next ==
    \/ \E i \in Inst, v \in Strings : New(i, v)
    \/ \E i \in Inst : ScopeEnd(i)
    \/ \E i \in Inst : Deref(i)
    \/ \E i \in Inst, alt \in BOOLEAN : Fmt(i, alt)
    \/ \E i \in Inst : Clone(i)
    \/ DropTemp
    \/ \E i \in Inst : Destroy(i)
    \/ \E T \in Types, w \in Widths : SizeOf(T, w)

Spec == Init /\ [][Next]_vars

SpecAny == InitAny /\ [][Next]_vars

\* ---------------------------------------------------------------- claims
Handle(i) == string_box[i].large_data_on_the_heap

Constructed == {i \in Inst : string_box[i].state # "Unborn"}

\* C1: once every constructed instance has been destroyed, exactly as many
\* releases have happened as instances were constructed, and no allocation
\* made by new() is still live.
C1_ReleasedExactlyOnce ==
    (\A i \in Inst : ~Alive(i)) =>
        /\ releases = Cardinality(Constructed)
        /\ LiveBoxes(heap) = {}

\* A live instance's handle is Some(p), p is a live box, the String in it
\* has a live buffer (or none) and holds the value passed to new().
HandleValid(i) ==
    Alive(i) =>
        /\ Handle(i) # None
        /\ heap[Handle(i)].kind = "box"
        /\ heap[Handle(i)].hdr # NoBuf =>
               heap[heap[Handle(i)].hdr].kind = "buf"
        /\ Pointee(heap, Handle(i)) = orig[i]

\* C2: every instance constructed by new() and not yet destroyed has a
\* present handle that points to a live box holding the value, in the
\* initial state and after every step, and no step that leaves the
\* instance alive changes its handle.
C2_HandlePresentAndLive ==
    /\ \A i \in Inst : HandleValid(i)
    /\ [][\A i \in Inst :
            /\ HandleValid(i)'
            /\ Alive(i) /\ Alive(i)' => string_box'[i] = string_box[i]]_vars

C2_Witness ==
    \E i \in Inst : /\ Alive(i)
                    /\ last.op = "clone"
                    /\ last.inst = i
                    /\ temp_value.live

\* No two live instances share an allocation, and the String made by
\* clone() owns neither an instance's box nor its buffer.
Exclusive ==
    /\ \A i, j \in Inst :
           i # j /\ Alive(i) /\ Alive(j) /\ Handle(i) # None
               => Handle(i) # Handle(j)
    /\ temp_value.live /\ temp_value.ptr # NoBuf =>
           \A i \in Inst : Alive(i) /\ Handle(i) # None =>
               /\ temp_value.ptr # Handle(i)
               /\ temp_value.ptr # heap[Handle(i)].hdr

\* C3: two distinct live instances never hold the same allocation, the
\* String made by clone() owns neither an instance's box nor its buffer,
\* and clone() creates no instance and no box.
C3_ExclusiveOwnership ==
    /\ Exclusive
    /\ [][/\ Exclusive'
          /\ \A i \in Inst : last'.op = "clone" /\ Clone(i) =>
                 /\ string_box' = string_box
                 /\ LiveBoxes(heap') = LiveBoxes(heap)]_vars

C3_Witness ==
    /\ \A i \in Inst : Alive(i)
    /\ last.op = "clone"
    /\ temp_value.live
    /\ temp_value.ptr # NoBuf

\* C4: the content read through a live instance is the content that was
\* passed to new(): both what the last deref returned and what any read
\* made now would return.
C4_ReadsOriginal ==
    /\ (last.op = "deref" /\ ~panicked => last.val = orig[last.inst])
    /\ \A i \in Inst : Alive(i) /\ Handle(i) # None =>
           Pointee(heap, Handle(i)) = orig[i]

C4_Witness ==
    /\ last.op = "deref"
    /\ last.val # <<>>
    /\ large_data_string_value[last.inst] = "ended"
    /\ ~temp_value.live

\* C5: deref and fmt change neither the heap, nor any handle, nor the
\* number of releases, and deref returns the address stored in the handle,
\* so two reads of one instance return the same address.
C5_ReadOnly ==
    [][\A i \in Inst :
          /\ last'.op \in {"deref", "fmt"}
             /\ (Deref(i) \/ \E alt \in BOOLEAN : Fmt(i, alt)) =>
                 /\ heap' = heap
                 /\ string_box' = string_box
                 /\ releases' = releases
          /\ last'.op = "deref" /\ Deref(i) => last'.ref = Handle(i)]_vars

C5_Witness ==
    /\ last.op = "deref"
    /\ last.ref # None
    /\ temp_value.live

\* C6: deref on an instance whose handle is None panics, returns no
\* reference, and leaves the heap and the handles as they were.
C6_AbsentPanics ==
    [][\A i \in Inst : Handle(i) = None /\ Deref(i) =>
          /\ panicked'
          /\ last'.ref = None
          /\ heap' = heap
          /\ string_box' = string_box]_vars

C6_Witness ==
    /\ panicked
    /\ last.op = "deref"
    /\ Handle(last.inst) = None

\* The tokens of a rendering that are not layout of the pretty form.
Canon(out) ==
    SelectSeq(out, LAMBDA t : t \notin {"\n", "    ", "        ", ","})

RECURSIVE Unescape(_)
\* Reading back the inside of a string literal.
Unescape(e) ==
    IF Len(e) = 0 THEN <<>>
    ELSE IF Head(e) = "\\" /\ Len(e) >= 2
         THEN <<e[2]>> \o Unescape(Tail(Tail(e)))
         ELSE <<Head(e)>> \o Unescape(Tail(e))

\* C7: the rendering of an instance is the struct name, the label
\* large_data_on_the_heap and then, for a present handle, Some(...) around
\* exactly the Debug rendering of the value passed to new() (from which that
\* value can be read back), and for an absent handle, None.
C7_DebugFormat ==
    last.op = "fmt" =>
        LET c == Canon(last.out)
            d == DebugString(orig[last.inst])
            n == Len(d)
        IN  /\ Len(c) >= 6
            /\ c[1] = "BlackBox"
            /\ c[3] = "large_data_on_the_heap"
            /\ c[4] = ": "
            /\ IF Handle(last.inst) # None
               THEN /\ Len(c) = 7 + n
                    /\ c[5] = "Some("
                    /\ SubSeq(c, 6, 5 + n) = d
                    /\ c[6 + n] = ")"
                    /\ Unescape(SubSeq(c, 7, 4 + n)) = orig[last.inst]
               ELSE /\ Len(c) = 6
                    /\ c[5] = "None"

C7_Witness ==
    /\ last.op = "fmt"
    /\ last.alt
    /\ Handle(last.inst) # None
    /\ orig[last.inst] # <<>>
    /\ \E j \in Inst : Alive(j) /\ Handle(j) = None

\* C8: size_of::<BlackBox<T>>() is one pointer width for every T the struct
\* admits.
C8_OnePointerWide ==
    last.op = "size_of" => last.size = last.width

\* A constructed instance can be dropped.
Droppable(i) == string_box[i].state = "Constructed" => ENABLED Destroy(i)

C10_CloneIsCheap ==
    last.op = "clone" =>
        /\ last.derefs = 1
        /\ last.allocd = 0
        /\ last.copied = 0

====
